---- MODULE Spec2Model ----
(***************************************************************************)
(* Model of src/index.ts: the approval scanner scanRecentApprovals().      *)
(*                                                                         *)
(* One asynchronous function runs on a single-threaded event loop.  The    *)
(* model has one action per continuation of that function: what runs      *)
(* between two awaits is atomic, and the settlement of each awaited       *)
(* request (getNetwork, getBlockNumber, each getBlock of a batch, the     *)
(* inter-batch timer, each name() call) is an input of the environment.   *)
(* The synchronous processing of a fetched batch (lines 64-100) is        *)
(* walked one block / one transaction at a time under pc = "process";     *)
(* no other action is enabled while it runs.                              *)
(*                                                                         *)
(* Call data is a sequence of bytes (0..255); the JSON-RPC hex string of  *)
(* a byte sequence is its lower-case hex rendering, so a string prefix    *)
(* test on "0x095ea7b3" is a prefix test on the first four bytes.         *)
(* An address is its 20 bytes together with the letter-casing of the text *)
(* it was written in.                                                      *)
(***************************************************************************)
EXTENDS Integers, Sequences, FiniteSets

\* ------------------------------------------------------------------ bounds
\* highest value getBlockNumber() answers with
MaxLatest == 3
\* largest configured window (BLOCKS_TO_SCAN)
MaxWindow == 3
\* largest configured batch size (BATCH_SIZE)
MaxBatch == 2

\* --------------------------------------------------------- ABI constants
\* bytes of a function selector: substring(0, 10) of the hex string
SelectorLen == 4
\* bytes of one ABI head slot (address and uint256 are both one slot)
WordLen == 32
\* bytes of an address
AddressLen == 20

Max(a, b) == IF a >= b THEN a ELSE b
Min(a, b) == IF a <= b THEN a ELSE b
Zeros(n) == [i \in 1..n |-> 0]
Range(s) == {s[i] : i \in 1..Len(s)}
StartsWith(data, prefix) ==
    /\ Len(data) >= Len(prefix)
    /\ SubSeq(data, 1, Len(prefix)) = prefix

\* ------------------------------------------------------------- addresses
\* An address as text: its bytes and the casing of its hex letters.
\*   "lower" / "upper": all letters in one case; "checksum": the EIP-55
\*   mixed case of these bytes; "mixed": some other mixed case.
AddressText(bytes, form) == [bytes |-> bytes, form |-> form]
\* tx.to of a contract-creation transaction
NoAddress == [bytes |-> <<>>, form |-> "null"]

\* ethers.getAddress: one-case text and correct checksum text normalise to
\* the checksum text of the same bytes; any other mixed case, and null, throw.
getAddress(a) ==
    IF a.form \in {"mixed", "null"}
    THEN [ok |-> FALSE, value |-> NoAddress]
    ELSE [ok |-> TRUE, value |-> AddressText(a.bytes, "checksum")]

TargetSpenderBytes ==
    <<179, 0, 0, 11, 114, 222, 174, 182, 7, 161,
      45, 95, 84, 119, 61, 28, 25, 199, 2, 141>>
TARGET_SPENDER_ADDRESS == getAddress(AddressText(TargetSpenderBytes, "lower")).value

\* ethers.id("approve(address,uint256)").substring(0, 10) = "0x095ea7b3"
APPROVE_FUNC_SELECTOR == <<9, 94, 167, 179>>

\* The functions of BEP20_ABI: selector and input types.
BEP20_ABI ==
    << [name |-> "name", selector |-> <<6, 253, 222, 3>>, inputs |-> <<>>],
       [name |-> "symbol", selector |-> <<149, 216, 155, 65>>, inputs |-> <<>>],
       [name |-> "decimals", selector |-> <<49, 60, 229, 103>>, inputs |-> <<>>],
       [name |-> "approve", selector |-> APPROVE_FUNC_SELECTOR,
        inputs |-> <<"address", "uint256">>] >>

\* ------------------------------------------------------------- decoding
\* The k-th 32-byte slot of the argument bytes.
Slot(body, k) == SubSeq(body, WordLen * (k - 1) + 1, WordLen * k)
PadLen == WordLen - AddressLen
\* An address slot decodes when its value fits 20 bytes (left padding zero).
SlotFits(type, slot) ==
    type = "address" => SubSeq(slot, 1, PadLen) = Zeros(PadLen)
SlotValue(type, slot) ==
    IF type = "address"
    THEN getAddress(AddressText(SubSeq(slot, PadLen + 1, WordLen), "lower")).value
    ELSE slot

\* mutant: the padding of an address slot is not checked
parseTransaction_lenientPadding(data) ==
    LET known == {i \in 1..Len(BEP20_ABI) : StartsWith(data, BEP20_ABI[i].selector)}
    IN  IF Len(data) < SelectorLen \/ known = {}
        THEN [status |-> "null", name |-> "", args |-> <<>>]
        ELSE LET f == BEP20_ABI[CHOOSE i \in known : TRUE]
                 body == SubSeq(data, SelectorLen + 1, Len(data))
                 n == Len(f.inputs)
             IN  IF Len(body) < WordLen * n
                 THEN [status |-> "throws", name |-> f.name, args |-> <<>>]
                 ELSE [status |-> "ok", name |-> f.name,
                       args |-> [k \in 1..n |-> SlotValue(f.inputs[k], Slot(body, k))]]
\* approveInterface.parseTransaction({ data }): null when no function of the
\* ABI has the data's selector; throws when the arguments do not decode;
\* otherwise the function's name and its decoded arguments.
parseTransaction(data) ==
    LET known == {i \in 1..Len(BEP20_ABI) : StartsWith(data, BEP20_ABI[i].selector)}
    IN  IF Len(data) < SelectorLen \/ known = {}
        THEN [status |-> "null", name |-> "", args |-> <<>>]
        ELSE LET f == BEP20_ABI[CHOOSE i \in known : TRUE]
                 body == SubSeq(data, SelectorLen + 1, Len(data))
                 n == Len(f.inputs)
             IN  IF \/ Len(body) < WordLen * n
                    \/ \E k \in 1..n : ~SlotFits(f.inputs[k], Slot(body, k))
                 THEN [status |-> "throws", name |-> f.name, args |-> <<>>]
                 ELSE [status |-> "ok", name |-> f.name,
                       args |-> [k \in 1..n |-> SlotValue(f.inputs[k], Slot(body, k))]]

\* ------------------------------------------------- the chain (environment)
Token1Bytes == Zeros(AddressLen - 1) \o <<1>>
Token2Bytes == Zeros(AddressLen - 1) \o <<2>>
OtherSpenderBytes == Zeros(AddressLen - 1) \o <<3>>

AddressSlot(bytes) == Zeros(PadLen) \o bytes
DirtyAddressSlot(bytes) == <<1>> \o Zeros(PadLen - 1) \o bytes
UintSlot(v) == Zeros(WordLen - 1) \o <<v>>
ApproveData(spenderBytes) ==
    APPROVE_FUNC_SELECTOR \o AddressSlot(spenderBytes) \o UintSlot(7)
Tx(to, data) == [to |-> to, data |-> data]

\* approve(target) sent to token 1, destination written in lower case
TxApprove1Lower == Tx(AddressText(Token1Bytes, "lower"), ApproveData(TargetSpenderBytes))
\* the same call, destination written in checksum case
TxApprove1Checksum == Tx(AddressText(Token1Bytes, "checksum"), ApproveData(TargetSpenderBytes))
\* approve(target) sent to token 2, destination written in upper case
TxApprove2Upper == Tx(AddressText(Token2Bytes, "upper"), ApproveData(TargetSpenderBytes))
\* approve(other spender) sent to token 2
TxApproveOther == Tx(AddressText(Token2Bytes, "checksum"), ApproveData(OtherSpenderBytes))
\* contract creation whose data is a well-formed approve(target)
TxCreation == Tx(NoAddress, ApproveData(TargetSpenderBytes))
\* approve selector followed by one slot only
TxTruncated ==
    Tx(AddressText(Token2Bytes, "checksum"),
       APPROVE_FUNC_SELECTOR \o AddressSlot(TargetSpenderBytes))
\* approve selector, target in the address slot, non-zero padding
TxDirtyPadding ==
    Tx(AddressText(Token2Bytes, "checksum"),
       APPROVE_FUNC_SELECTOR \o DirtyAddressSlot(TargetSpenderBytes) \o UintSlot(7))
\* transfer(address,uint256), selector 0xa9059cbb, same arguments
TxTransfer ==
    Tx(AddressText(Token2Bytes, "checksum"),
       <<169, 5, 156, 187>> \o AddressSlot(TargetSpenderBytes) \o UintSlot(7))
\* name(), a function of the ABI other than approve
TxNameCall == Tx(AddressText(Token2Bytes, "checksum"), BEP20_ABI[1].selector)
\* three bytes of the approve selector, and no data at all
TxShortData == Tx(AddressText(Token2Bytes, "checksum"), <<9, 94, 167>>)
TxNoData == Tx(AddressText(Token2Bytes, "checksum"), <<>>)
\* approve(target), destination text in a mixed case that is no checksum
TxBadCaseTo == Tx(AddressText(Token2Bytes, "mixed"), ApproveData(TargetSpenderBytes))

\* What one getBlock(height, true) can settle with.
Block(kind, txs) == [kind |-> kind, txs |-> txs]
FetchOutcomes ==
    << Block("rejected", <<>>),
       Block("null", <<>>),
       Block("block", <<>>),
       Block("block", <<TxApprove1Lower>>),
       Block("block", <<TxApprove1Checksum, TxApproveOther, TxApprove1Lower>>),
       Block("block", <<TxCreation, TxTruncated, TxApprove2Upper, TxTransfer>>),
       Block("block", <<TxDirtyPadding, TxBadCaseTo, TxNameCall, TxShortData,
                        TxNoData, TxApprove1Lower>>) >>
OutcomeIds == 1..Len(FetchOutcomes)
\* chain[h] of a height whose fetch has not settled yet
Unknown == 0
BlockAt(id) == IF id = Unknown THEN Block("unknown", <<>>) ELSE FetchOutcomes[id]

\* what contract.name() can settle with
NameAnswers == {"TokenName"}
ErrorSentinel == "<Error fetching name>"

Heights == 0..MaxLatest

\* ------------------------------------------------------------------ state
VARIABLES
    pc,                 \* where scanRecentApprovals is suspended
    BLOCKS_TO_SCAN,     \* configured window
    BATCH_SIZE,         \* configured batch size
    latestBlockNumber,  \* answer of getBlockNumber(), -1 before it
    startBlock,
    currentBlock,       \* loop variable of the batch loop
    endBatchBlock,
    pending,            \* heights whose getBlock request has not settled
    arrivals,           \* heights of the batch in flight, in order of fulfilment
    blocks,             \* the array Promise.all fulfilled with, as heights
    reordered,          \* log: the fetches of this batch fulfilled out of height order
    chain,              \* height -> id of what its fetch settled with
    blockNum,           \* height of the block being processed
    txIndex,            \* position in its prefetchedTransactions
    foundTokens,        \* the Set<string>, in insertion order
    results,            \* the TokenRecords pushed so far
    tokenIndex,         \* position of the enrichment loop in foundTokens
    outcome,            \* how the function returned
    exitCode,           \* exit status of the process, -1 while it runs
    heightQueries,      \* log: number of getBlockNumber() calls issued
    fetched,            \* log: the batches of heights getBlock was called for
    decodeCalls,        \* log: <<height, index>> passed to parseTransaction
    warned,             \* log: <<height, index>> of the console.warn calls
    notices,            \* log: the "Found approval" notices
    nameCalls,          \* log: the name() calls and what they settled with
    processed           \* log: heights whose block went through the loop body

vars ==
    <<pc, BLOCKS_TO_SCAN, BATCH_SIZE, latestBlockNumber, startBlock, currentBlock,
      endBatchBlock, pending, arrivals, blocks, reordered, chain, blockNum, txIndex,
      foundTokens, results, tokenIndex, outcome, exitCode, heightQueries, fetched,
      decodeCalls, warned, notices, nameCalls, processed>>

config == <<BLOCKS_TO_SCAN, BATCH_SIZE>>
range == <<latestBlockNumber, startBlock>>
batch == <<currentBlock, endBatchBlock>>
barrier == <<arrivals, blocks, reordered>>
cursor == <<blockNum, txIndex>>
scanLogs == <<decodeCalls, warned, notices, processed>>
enrichment == <<results, tokenIndex, nameCalls>>

Init ==
    /\ pc = "start"
    /\ BLOCKS_TO_SCAN \in 1..MaxWindow
    /\ BATCH_SIZE \in 1..MaxBatch
    /\ latestBlockNumber = -1
    /\ startBlock = 0
    /\ currentBlock = 0
    /\ endBatchBlock = 0
    /\ pending = {}
    /\ arrivals = <<>>
    /\ blocks = <<>>
    /\ reordered = FALSE
    /\ chain = [h \in Heights |-> Unknown]
    /\ blockNum = 0
    /\ txIndex = 1
    /\ foundTokens = <<>>
    /\ results = <<>>
    /\ tokenIndex = 1
    /\ outcome = "running"
    /\ exitCode = -1
    /\ heightQueries = 0
    /\ fetched = <<>>
    /\ decodeCalls = {}
    /\ warned = {}
    /\ notices = <<>>
    /\ nameCalls = <<>>
    /\ processed = {}

\* --------------------------------------------------- the code's own steps
\* line 47
StartBlock(latest, window) == Max(0, latest - window + 1)
\* mutant: the batch reaches one height too far
EndBatchBlock_offByOne(cb, size, latest) == Min(cb + size, latest)
\* line 52
EndBatchBlock(cb, size, latest) == Min(cb + size - 1, latest)
\* mutant: the loop stops one height short
LoopContinues_strict(cb, latest) == cb < latest
\* line 51, the loop condition
LoopContinues(cb, latest) == cb <= latest
\* mutant: the loop increment skips one height past the batch
NextBatchStart_skipsOne(cb, size) == cb + size + 1
\* line 51, the loop increment
NextBatchStart(cb, size) == cb + size
\* lines 56-60: the heights getBlock is called for, in call order
BatchHeights(cb, eb) == [i \in 1..(eb - cb + 1) |-> cb + i - 1]
\* mutant: a fetch that answers null is taken for a failed fetch
Rejects_onNull(block) == block.kind \in {"rejected", "null"}
\* mutant: the blocks are taken in the order their fetches completed
PromiseAllOrder_byCompletion(heights, arrived) == arrived
\* line 62: Promise.all fulfils with the values in the order of the promises
\* it was given, whatever the order in which they fulfilled
PromiseAllOrder(heights, arrived) == heights
\* line 62: Promise.all rejects as soon as one of its promises rejects
Rejects(block) == block.kind = "rejected"
\* line 66
SkipsBlock(block) == block.kind = "null" \/ Len(block.txs) = 0
\* mutant: the selector test is dropped
IsCandidate_anySelector(tx) == tx.to # NoAddress
\* line 73 (tx.data is a hex string "0x...", never empty, hence truthy)
IsCandidate(tx) == tx.to # NoAddress /\ StartsWith(tx.data, APPROVE_FUNC_SELECTOR)
\* mutant: the destination is kept as written, not normalised
TokenAddress_asWritten(tx) == [ok |-> getAddress(tx.to).ok, value |-> tx.to]
\* line 82
TokenAddress(tx) == getAddress(tx.to)
\* mutant: the decoded spender is compared with the lower-case literal
IsTargetSpender_rawLiteral(spender) == spender = AddressText(TargetSpenderBytes, "lower")
\* line 85
IsTargetSpender(spender) ==
    LET s == getAddress(spender)
    IN  s.ok /\ s.value = TARGET_SPENDER_ADDRESS
\* mutant: the registry is overwritten with the new entry
SetAdd_replace(set, x) == <<x>>
\* mutant: every qualifying approval counts as a discovery
IsNewToken_always(found, address) == TRUE
\* line 86
IsNewToken(found, address) == address \notin Range(found)
\* Set.prototype.add on the insertion-ordered set
SetAdd(set, x) == IF x \in Range(set) THEN set ELSE Append(set, x)

\* lines 73-98 for one transaction: the registry after it, and what it did.
TxEffect(found, decoded, warn, added) ==
    [found |-> found, decoded |-> decoded, warn |-> warn, added |-> added]
HandleTx(tx, found) ==
    IF ~IsCandidate(tx)
    THEN TxEffect(found, FALSE, FALSE, FALSE)
    ELSE LET d == parseTransaction(tx.data)
         IN  IF d.status = "throws"
             THEN TxEffect(found, TRUE, TRUE, FALSE)
             ELSE IF d.status = "null" \/ d.name # "approve"
             THEN TxEffect(found, TRUE, FALSE, FALSE)
             ELSE LET tokenAddress == TokenAddress(tx)
                  IN  IF ~tokenAddress.ok \/ ~getAddress(d.args[1]).ok
                      THEN TxEffect(found, TRUE, TRUE, FALSE)
                      ELSE IF IsTargetSpender(d.args[1])
                              /\ IsNewToken(found, tokenAddress.value)
                      THEN TxEffect(SetAdd(found, tokenAddress.value), TRUE, FALSE, TRUE)
                      ELSE TxEffect(found, TRUE, FALSE, FALSE)

\* mutant: the failure marker of the call is pushed instead of the sentinel
TokenRecord_noSentinel(address, answer) == [address |-> address, name |-> answer]
\* lines 119 and 122: the record pushed for one token
TokenRecord(address, answer) ==
    [address |-> address,
     name |-> IF answer = "reverted" THEN ErrorSentinel ELSE answer]

\* The function returns (lines 42, 108, 126-134): the promise resolves.
Return(how) ==
    /\ pc' = "returned"
    /\ outcome' = how

\* Lines 51-62, entered with currentBlock = cb: either the next batch's
\* fetches are issued and the function suspends on Promise.all, or the loop
\* is over and lines 106-117 run up to the first name() call.
LoopHead(cb, latest) ==
    /\ currentBlock' = cb
    /\ arrivals' = <<>>
    /\ blocks' = <<>>
    /\ reordered' = FALSE
    /\ IF LoopContinues(cb, latest)
       THEN /\ endBatchBlock' = EndBatchBlock(cb, BATCH_SIZE, latest)
            /\ pending' = Range(BatchHeights(cb, endBatchBlock'))
            /\ fetched' = Append(fetched, BatchHeights(cb, endBatchBlock'))
            /\ pc' = "awaitBlocks"
            /\ UNCHANGED <<outcome, tokenIndex>>
       ELSE /\ UNCHANGED <<endBatchBlock, pending, fetched>>
            /\ tokenIndex' = 1
            /\ IF Len(foundTokens) = 0
               THEN Return("noTokens")
               ELSE pc' = "awaitName" /\ UNCHANGED outcome

\* ---------------------------------------------------------------- actions
\* lines 138-140: the endpoint is not configured, nothing runs
RunUnconfigured ==
    /\ pc = "start"
    /\ Return("notConfigured")
    /\ UNCHANGED <<config, range, batch, pending, barrier, chain, cursor, foundTokens,
                   enrichment, exitCode, heightQueries, fetched, scanLogs>>

\* lines 142, 30-38: the scan starts and suspends on getNetwork()
RunScan ==
    /\ pc = "start"
    /\ pc' = "awaitNetwork"
    /\ UNCHANGED <<config, range, batch, pending, barrier, chain, cursor, foundTokens,
                   enrichment, outcome, exitCode, heightQueries, fetched, scanLogs>>

\* lines 38-39, 46: connected; suspends on getBlockNumber()
ConnectOk ==
    /\ pc = "awaitNetwork"
    /\ pc' = "awaitBlockNumber"
    /\ heightQueries' = heightQueries + 1
    /\ UNCHANGED <<config, range, batch, pending, barrier, chain, cursor, foundTokens,
                   enrichment, outcome, exitCode, fetched, scanLogs>>

\* mutant: the catch of lines 40-43 does not return
ConnectFail_fallsThrough ==
    /\ pc = "awaitNetwork"
    /\ pc' = "awaitBlockNumber"
    /\ outcome' = "connectError"
    /\ heightQueries' = heightQueries + 1
    /\ UNCHANGED <<config, range, batch, pending, barrier, chain, cursor, foundTokens,
                   enrichment, exitCode, fetched, scanLogs>>
\* lines 40-43: getNetwork() rejected
ConnectFail ==
    /\ pc = "awaitNetwork"
    /\ Return("connectError")
    /\ UNCHANGED <<config, range, batch, pending, barrier, chain, cursor, foundTokens,
                   enrichment, exitCode, heightQueries, fetched, scanLogs>>

\* lines 46-62: the latest height is known; the first batch is issued
GetBlockNumberOk ==
    \E n \in 0..MaxLatest :
        /\ pc = "awaitBlockNumber"
        /\ latestBlockNumber' = n
        /\ startBlock' = StartBlock(n, BLOCKS_TO_SCAN)
        /\ LoopHead(startBlock', n)
        /\ UNCHANGED <<config, chain, cursor, foundTokens, results, nameCalls,
                       exitCode, heightQueries, scanLogs>>

\* lines 46, 128-134: getBlockNumber() rejected
GetBlockNumberFail ==
    /\ pc = "awaitBlockNumber"
    /\ Return("scanError")
    /\ UNCHANGED <<config, range, batch, pending, barrier, chain, cursor, foundTokens,
                   enrichment, exitCode, heightQueries, fetched, scanLogs>>

\* lines 59, 62: one getBlock of the batch fulfils (a block or null); when it
\* is the last one, Promise.all fulfils and processing starts at the first
\* block of the batch (line 65).
FetchFulfilled ==
    \E h \in pending, id \in OutcomeIds :
        /\ pc = "awaitBlocks"
        /\ ~Rejects(BlockAt(id))
        /\ chain' = [chain EXCEPT ![h] = id]
        /\ pending' = pending \ {h}
        /\ IF pending' = {}
           THEN /\ blocks' = PromiseAllOrder(BatchHeights(currentBlock, endBatchBlock),
                                            Append(arrivals, h))
                /\ reordered' = (Append(arrivals, h) # BatchHeights(currentBlock, endBatchBlock))
                /\ arrivals' = <<>>
                /\ pc' = "process"
                /\ blockNum' = blocks'[1]
                /\ txIndex' = 1
           ELSE /\ arrivals' = Append(arrivals, h)
                /\ UNCHANGED <<pc, cursor, blocks, reordered>>
        /\ UNCHANGED <<config, range, batch, foundTokens, enrichment, outcome,
                       exitCode, heightQueries, fetched, scanLogs>>

\* lines 59, 62, 128-134: one getBlock of the batch rejects; Promise.all
\* rejects with it, the outer catch logs, and the function returns while the
\* batch's other requests are still in flight.
FetchRejected ==
    \E h \in pending, id \in OutcomeIds :
        /\ pc = "awaitBlocks"
        /\ Rejects(BlockAt(id))
        /\ chain' = [chain EXCEPT ![h] = id]
        /\ pending' = pending \ {h}
        /\ Return("scanError")
        /\ UNCHANGED <<config, range, batch, barrier, cursor, foundTokens, enrichment,
                       exitCode, heightQueries, fetched, scanLogs>>

\* line 59: a request left in flight settles after the function returned;
\* nothing reads its result.
LateFetchSettled ==
    \E h \in pending, id \in OutcomeIds :
        /\ pc = "returned"
        /\ chain' = [chain EXCEPT ![h] = id]
        /\ pending' = pending \ {h}
        /\ UNCHANGED <<pc, config, range, batch, barrier, cursor, foundTokens,
                       enrichment, outcome, exitCode, heightQueries, fetched, scanLogs>>

\* lines 65, 100-102: the loop body for block h is over; the next element of
\* `blocks`, or the inter-batch timer.
AfterBlock(h) ==
    /\ processed' = processed \cup {h}
    /\ LET i == CHOOSE k \in 1..Len(blocks) : blocks[k] = h
       IN  IF i < Len(blocks)
           THEN pc' = pc /\ blockNum' = blocks[i + 1] /\ txIndex' = 1
           ELSE pc' = "awaitDelay" /\ UNCHANGED cursor

\* lines 65-68: a null or empty block is skipped
ProcessSkip ==
    /\ pc = "process"
    /\ SkipsBlock(BlockAt(chain[blockNum]))
    /\ AfterBlock(blockNum)
    /\ UNCHANGED <<config, range, batch, pending, barrier, chain, foundTokens, enrichment,
                   outcome, exitCode, heightQueries, fetched, decodeCalls, warned, notices>>

\* lines 71-99: one transaction of the block being processed
ProcessTx ==
    /\ pc = "process"
    /\ ~SkipsBlock(BlockAt(chain[blockNum]))
    /\ LET txs == BlockAt(chain[blockNum]).txs
           r == HandleTx(txs[txIndex], foundTokens)
           here == <<blockNum, txIndex>>
       IN  /\ foundTokens' = r.found
           /\ decodeCalls' = IF r.decoded THEN decodeCalls \cup {here} ELSE decodeCalls
           /\ warned' = IF r.warn THEN warned \cup {here} ELSE warned
           /\ notices' = IF r.added
                         THEN Append(notices, [address |-> foundTokens'[Len(foundTokens')],
                                               block |-> blockNum, index |-> txIndex])
                         ELSE notices
           /\ IF txIndex < Len(txs)
              THEN txIndex' = txIndex + 1 /\ UNCHANGED <<pc, blockNum, processed>>
              ELSE AfterBlock(blockNum)
    /\ UNCHANGED <<config, range, batch, pending, barrier, chain, enrichment, outcome,
                   exitCode, heightQueries, fetched>>

\* lines 102, 51: the timer fires; the loop variable advances
DelayDone ==
    /\ pc = "awaitDelay"
    /\ LoopHead(NextBatchStart(currentBlock, BATCH_SIZE), latestBlockNumber)
    /\ UNCHANGED <<config, range, chain, cursor, foundTokens, results, nameCalls,
                   exitCode, heightQueries, scanLogs>>

\* lines 114-126: name() of the current token settled with `answer`; the
\* record is pushed and the loop goes to the next token or the function ends.
NameSettled(answer) ==
    /\ LET tokenAddr == foundTokens[tokenIndex]
       IN  /\ results' = Append(results, TokenRecord(tokenAddr, answer))
           /\ nameCalls' = Append(nameCalls, [address |-> tokenAddr, answer |-> answer])
    /\ IF tokenIndex < Len(foundTokens)
       THEN tokenIndex' = tokenIndex + 1 /\ UNCHANGED <<pc, outcome>>
       ELSE Return("complete") /\ UNCHANGED tokenIndex
    /\ UNCHANGED <<config, range, batch, pending, barrier, chain, cursor, foundTokens,
                   exitCode, heightQueries, fetched, scanLogs>>

\* lines 117-119: name() fulfilled
NameOk ==
    /\ pc = "awaitName"
    /\ \E answer \in NameAnswers : NameSettled(answer)

\* lines 120-123: name() rejected
NameFail ==
    /\ pc = "awaitName"
    /\ NameSettled("reverted")

\* lines 142-145: the promise of scanRecentApprovals() resolved, so the
\* .catch handler does not run; the process ends with status 0 once no
\* request is left in flight.
ProcessExit ==
    /\ pc = "returned"
    /\ pending = {}
    /\ pc' = "exited"
    /\ exitCode' = 0
    /\ UNCHANGED <<config, range, batch, pending, barrier, chain, cursor, foundTokens,
                   enrichment, outcome, heightQueries, fetched, scanLogs>>

Next ==
    \/ RunUnconfigured
    \/ RunScan
    \/ ConnectOk
    \/ ConnectFail
    \/ GetBlockNumberOk
    \/ GetBlockNumberFail
    \/ FetchFulfilled
    \/ FetchRejected
    \/ LateFetchSettled
    \/ ProcessSkip
    \/ ProcessTx
    \/ DelayDone
    \/ NameOk
    \/ NameFail
    \/ ProcessExit

Spec == Init /\ [][Next]_vars

\* Every awaited request and the inter-batch timer eventually settle, and the
\* event loop then runs the continuation that waits for it.
FairSpec == Spec /\ WF_vars(Next)

\* ------------------------------------------------- vocabulary of the claims
\* the scanned range, once getBlockNumber() has answered
LatestKnown == latestBlockNumber >= 0
ScanRange == startBlock..latestBlockNumber
\* the batch loop ran to its end (line 103 left for line 106)
ScanCompleted == pc = "awaitName" \/ outcome \in {"noTokens", "complete"}
KnownHeights == {h \in Heights : chain[h] # Unknown}
TxsAt(h) == BlockAt(chain[h]).txs
TxPlaces(h) == {<<h, i>> : i \in 1..Len(TxsAt(h))}
\* the transactions the loop of line 71 has gone through so far
Visited ==
    UNION {TxPlaces(h) : h \in processed}
        \cup (IF pc = "process"
              THEN {<<blockNum, i>> : i \in 1..(txIndex - 1)}
              ELSE {})
TxOf(p) == TxsAt(p[1])[p[2]]
NoticePlaces == {<<notices[k].block, notices[k].index>> : k \in 1..Len(notices)}
RECURSIVE Concat(_)
Concat(ss) == IF ss = <<>> THEN <<>> ELSE Head(ss) \o Concat(Tail(ss))

\* has a destination and its first four bytes are 09 5e a7 b3
HasApproveSelector(tx) ==
    /\ tx.to # NoAddress
    /\ Len(tx.data) >= 4
    /\ \A k \in 1..4 : tx.data[k] = APPROVE_FUNC_SELECTOR[k]
\* the arguments after the selector are not two slots with a clean address
MalformedArguments(tx) ==
    \/ Len(tx.data) < 4 + 64
    \/ \E k \in 5..16 : tx.data[k] # 0
\* an approve of the target spender that decodes, sent to a readable address
Qualifies(tx) ==
    /\ HasApproveSelector(tx)
    /\ parseTransaction(tx.data).status = "ok"
    /\ parseTransaction(tx.data).name = "approve"
    /\ getAddress(parseTransaction(tx.data).args[1]).value.bytes = TargetSpenderBytes
    /\ tx.to.form \in {"lower", "upper", "checksum"}
\* the checksum texts of the destinations of the qualifying transactions
ExpectedTokens(heights) ==
    {AddressText(TxOf(p).to.bytes, "checksum") :
        p \in {q \in UNION {TxPlaces(h) : h \in heights} : Qualifies(TxOf(q))}}

\* ------------------------------------------------------------------ C1
\* C1: startBlock = max(0, latest - window + 1); the heights fetched are
\* consecutive ascending heights from startBlock, in batches of 1..BATCH_SIZE
\* heights, never beyond latest; and when the batch loop ends with every
\* fetch fulfilled they are exactly startBlock..latest, each once.
C1_RangeAndBatches ==
    LatestKnown =>
        LET flat == Concat(fetched)
            size == latestBlockNumber - startBlock + 1
        IN  /\ startBlock = (IF latestBlockNumber - BLOCKS_TO_SCAN + 1 > 0
                             THEN latestBlockNumber - BLOCKS_TO_SCAN + 1 ELSE 0)
            /\ \A b \in 1..Len(fetched) :
                   Len(fetched[b]) >= 1 /\ Len(fetched[b]) <= BATCH_SIZE
            /\ Len(flat) <= size
            /\ \A i \in 1..Len(flat) : flat[i] = startBlock + i - 1
            /\ ScanCompleted => Len(flat) = size
\* a completed scan from a start above 0 whose last batch is a partial one
C1_Witness ==
    /\ ScanCompleted
    /\ startBlock > 0
    /\ Len(fetched) >= 2
    /\ Len(fetched[Len(fetched)]) < BATCH_SIZE
\* a completed scan whose batch size exceeds the window
C1_WitnessWideBatch ==
    ScanCompleted /\ BATCH_SIZE > BLOCKS_TO_SCAN /\ Len(fetched) = 1

\* ------------------------------------------------------------------ C2
\* C2: after a scan in which every fetch fulfilled, the registry is exactly
\* the set of normalised destinations of the transactions of the range that
\* have a destination, carry the approve selector, decode as approve and
\* whose decoded spender is the target.
C2_RegistryIsExpected ==
    ScanCompleted => Range(foundTokens) = ExpectedTokens(ScanRange)
\* both tokens found, in a range that also holds an approve of another spender
C2_Witness ==
    /\ ScanCompleted
    /\ Len(foundTokens) = 2
    /\ \E h \in ScanRange : \E i \in 1..Len(TxsAt(h)) : TxsAt(h)[i] = TxApproveOther

\* ------------------------------------------------------------------ C3
\* C3: no two entries of the registry are texts of the same 20 bytes.
C3_NoDuplicateToken ==
    \A i, j \in 1..Len(foundTokens) :
        foundTokens[i].bytes = foundTokens[j].bytes => i = j
\* token 1 approved in checksum and in lower case within one block, and
\* again in a block of another batch; the registry holds it once
C3_Witness ==
    /\ ScanCompleted
    /\ \E h1, h2 \in processed :
           /\ \E b \in 1..Len(fetched) : h1 \in Range(fetched[b]) /\ h2 \notin Range(fetched[b])
           /\ {TxApprove1Checksum, TxApprove1Lower} \subseteq Range(TxsAt(h1))
           /\ TxApprove1Lower \in Range(TxsAt(h2))
    /\ Cardinality({i \in 1..Len(foundTokens) : foundTokens[i].bytes = Token1Bytes}) = 1

\* ------------------------------------------------------------------ C4
\* C4: when a block fetch rejects, the scan still goes through every height
\* of the range and enrichment still calls name() for every registry entry.
C4_FetchFailureContained ==
    (pc = "exited" /\ LatestKnown
        /\ \E h \in ScanRange : BlockAt(chain[h]).kind = "rejected")
    => /\ processed = ScanRange
       /\ Len(nameCalls) = Len(foundTokens)

\* ------------------------------------------------------------------ C5
\* C5: a fetch that answers null, or a block without transactions, adds
\* nothing and raises no error: no decode, warning or notice comes from that
\* height, a run without a rejected request never ends in the error handler,
\* and a completed scan went through the whole range and holds what the
\* other heights alone account for.
C5_NullOrEmptyIsHarmless ==
    LET hollow == {h \in KnownHeights :
                      BlockAt(chain[h]).kind = "null" \/ TxsAt(h) = <<>>}
    IN  /\ \A h \in hollow :
               \A p \in decodeCalls \cup warned \cup NoticePlaces : p[1] # h
        /\ (LatestKnown /\ \A h \in KnownHeights : BlockAt(chain[h]).kind # "rejected")
               => outcome # "scanError"
        /\ ScanCompleted =>
               /\ processed = ScanRange
               /\ Range(foundTokens) = ExpectedTokens(ScanRange \ hollow)
\* a null answer and an empty block, followed in a later batch by a discovery
C5_Witness ==
    /\ ScanCompleted
    /\ \E h1, h2, h3 \in ScanRange :
           /\ h1 < h3 /\ h2 < h3
           /\ BlockAt(chain[h1]).kind = "null"
           /\ BlockAt(chain[h2]).kind = "block" /\ TxsAt(h2) = <<>>
           /\ \E b \in 1..Len(fetched) : h1 \in Range(fetched[b]) /\ h3 \notin Range(fetched[b])
           /\ h3 \in {notices[k].block : k \in 1..Len(notices)}

\* ------------------------------------------------------------------ C6
\* C6: a transaction with the approve selector whose arguments do not decode,
\* or whose destination does not normalise, is caught where it is handled:
\* it is warned about, adds nothing, the error handler of the scan is not
\* entered, and the later transactions, blocks and batches are handled.
C6_DecodeFailureContained ==
    LET failing == {p \in Visited :
                       /\ HasApproveSelector(TxOf(p))
                       /\ MalformedArguments(TxOf(p)) \/ TxOf(p).to.form = "mixed"}
    IN  /\ \A p \in failing : p \in warned /\ p \notin NoticePlaces
        /\ warned \subseteq failing
        /\ (LatestKnown /\ \A h \in KnownHeights : BlockAt(chain[h]).kind # "rejected")
               => outcome # "scanError"
        /\ \A h \in processed :
               /\ \A i \in 1..Len(TxsAt(h)) :
                      /\ HasApproveSelector(TxsAt(h)[i]) => <<h, i>> \in decodeCalls
                      /\ Qualifies(TxsAt(h)[i]) =>
                             AddressText(TxsAt(h)[i].to.bytes, "checksum") \in Range(foundTokens)
        /\ ScanCompleted => processed = ScanRange
\* a truncated call is warned about and a later call of the same block is found
C6_Witness ==
    /\ ScanCompleted
    /\ \E p \in warned, q \in NoticePlaces :
           /\ p[1] = q[1] /\ p[2] < q[2]
           /\ TxOf(p) = TxTruncated
           /\ \E r \in warned : r[1] > p[1] /\ TxOf(r) = TxBadCaseTo

\* ------------------------------------------------------------------ C7
\* C7: enrichment pushes one record per registry entry, in registry order;
\* the record of a token whose name() call failed carries the sentinel, and
\* every other record carries the answer of its own call.
C7_OneRecordPerToken ==
    /\ Len(results) = Len(nameCalls)
    /\ Len(results) <= Len(foundTokens)
    /\ \A i \in 1..Len(results) :
           /\ results[i].address = foundTokens[i]
           /\ nameCalls[i].address = foundTokens[i]
           /\ results[i].name = (IF nameCalls[i].answer = "reverted"
                                 THEN "<Error fetching name>"
                                 ELSE nameCalls[i].answer)
    /\ pc = "awaitName" => Len(results) = tokenIndex - 1
    /\ outcome = "complete" => Len(results) = Len(foundTokens)
    /\ (ScanCompleted /\ pc # "awaitName" /\ Len(foundTokens) > 0) => outcome = "complete"
\* the first token's call failed and the second token still got its name
C7_Witness ==
    /\ outcome = "complete"
    /\ Len(results) = 2
    /\ results[1].name = "<Error fetching name>"
    /\ results[2].name = "TokenName"

\* ------------------------------------------------------------------ C8
\* A whole run with batch size `size` over the chain data of this run:
\* lines 51-103 batch by batch, then lines 106-124.
RECURSIVE ProcessTxs(_, _)
ProcessTxs(txs, found) ==
    IF txs = <<>> THEN found
    ELSE ProcessTxs(Tail(txs), HandleTx(Head(txs), found).found)
RECURSIVE ProcessBlocks(_, _, _)
ProcessBlocks(h, eb, found) ==
    IF h > eb THEN found
    ELSE ProcessBlocks(h + 1, eb,
                       IF SkipsBlock(BlockAt(chain[h])) THEN found
                       ELSE ProcessTxs(TxsAt(h), found))
RECURSIVE ScanFrom(_, _, _)
ScanFrom(cb, size, found) ==
    IF ~LoopContinues(cb, latestBlockNumber)
    THEN [found |-> found, aborted |-> FALSE]
    ELSE LET eb == EndBatchBlock(cb, size, latestBlockNumber)
         IN  IF \E h \in cb..eb : Rejects(BlockAt(chain[h]))
             THEN [found |-> found, aborted |-> TRUE]
             ELSE ScanFrom(NextBatchStart(cb, size), size, ProcessBlocks(cb, eb, found))
AnswerFor(address) ==
    IF \E k \in 1..Len(nameCalls) : nameCalls[k].address = address
    THEN nameCalls[CHOOSE k \in 1..Len(nameCalls) : nameCalls[k].address = address].answer
    ELSE "unasked"
RunWith(size) ==
    LET scan == ScanFrom(startBlock, size, <<>>)
    IN  [registry |-> scan.found,
         report |-> IF scan.aborted THEN <<>>
                    ELSE [i \in 1..Len(scan.found) |->
                             TokenRecord(scan.found[i], AnswerFor(scan.found[i]))]]

\* C8: a run ends with the registry and the report that a run over the same
\* chain data with any other batch size ends with.
C8_BatchSizeIndependent ==
    (pc = "exited" /\ LatestKnown) =>
        \A size \in 1..MaxBatch :
            /\ RunWith(size).registry = foundTokens
            /\ RunWith(size).report = results

\* ------------------------------------------------------------------ C9
\* C9: the exit status is non-zero exactly when the client could not be
\* reached at startup or a failure escaped the scan loop.
C9_ExitStatus ==
    pc = "exited" =>
        (exitCode # 0 <=> outcome \in {"connectError", "scanError"})

\* ------------------------------------------------------------------ C10
\* C10: of the transactions gone through, exactly those with a destination
\* and the four selector bytes are passed to the decoder; the others cause
\* no warning and no registry entry.
C10_DecoderGuard ==
    /\ decodeCalls \subseteq Visited
    /\ \A p \in Visited :
           /\ p \in decodeCalls <=> HasApproveSelector(TxOf(p))
           /\ ~HasApproveSelector(TxOf(p)) => p \notin warned /\ p \notin NoticePlaces
\* a contract creation and a transfer call were gone through, then a token found
C10_Witness ==
    \E h \in processed :
        /\ TxCreation \in Range(TxsAt(h))
        /\ TxTransfer \in Range(TxsAt(h))
        /\ \A i \in 1..Len(TxsAt(h)) :
               TxsAt(h)[i] \in {TxCreation, TxTransfer} => <<h, i>> \notin decodeCalls
        /\ h \in {notices[k].block : k \in 1..Len(notices)}

\* ------------------------------------------------------------------ C11
\* C11: after a failed connectivity check nothing of the scan happens: no
\* getBlockNumber() call, no getBlock call, no name() call, an empty registry.
C11_HaltsBeforeScanning ==
    outcome = "connectError" =>
        /\ pc \in {"returned", "exited"}
        /\ heightQueries = 0
        /\ latestBlockNumber = -1
        /\ fetched = <<>>
        /\ pending = {}
        /\ nameCalls = <<>>
        /\ foundTokens = <<>>
\* the process has ended after a failed connectivity check
C11_Witness == outcome = "connectError" /\ pc = "exited"

\* ------------------------------------------------------------------ C12
\* C12: at most BATCH_SIZE getBlock requests are in flight, all of them of
\* the batch issued last.
C12_InFlightBounded ==
    /\ Cardinality(pending) <= BATCH_SIZE
    /\ pending # {} =>
           /\ fetched # <<>>
           /\ pending \subseteq Range(fetched[Len(fetched)])
           /\ pending \subseteq currentBlock..endBatchBlock
\* after a full batch of BATCH_SIZE >= 2 requests the whole of the second
\* batch is in flight
C12_Witness ==
    /\ BATCH_SIZE >= 2
    /\ Len(fetched) >= 2
    /\ Len(fetched[1]) = BATCH_SIZE
    /\ pending = Range(fetched[Len(fetched)])

\* ------------------------------------------------------------------ C13
\* C13: while a fetch of the batch is unsettled the scanner stays at the
\* barrier: it processes no block, issues no further fetch and does not end.
C13_BarrierBeforeAdvance ==
    pending # {} => pc = "awaitBlocks"

\* ------------------------------------------------------------------ C14
\* C14: a run that has ended either never started a batch or went through
\* every height of the range.
C14_AllOrNothing ==
    pc = "exited" =>
        \/ fetched = <<>>
        \/ LatestKnown /\ processed = ScanRange

\* ------------------------------------------------------------------ C15
\* name() has been called or is being awaited
EnrichmentBegun == pc = "awaitName" \/ nameCalls # <<>>
\* C15: once enrichment has begun every height of the range has been fetched
\* and processed and no fetch is in flight; the registry does not change any
\* more; the name() calls go through the registry entry by entry, one call
\* per entry.
C15_EnrichmentAfterScan ==
    /\ [](EnrichmentBegun =>
            /\ LatestKnown
            /\ processed = ScanRange
            /\ Range(Concat(fetched)) = ScanRange
            /\ pending = {})
    /\ [](/\ Len(nameCalls) <= Len(foundTokens)
          /\ \A i \in 1..Len(nameCalls) : nameCalls[i].address = foundTokens[i]
          /\ pc = "awaitName" => Len(nameCalls) = tokenIndex - 1
          /\ outcome = "complete" => Len(nameCalls) = Len(foundTokens))
    /\ [][EnrichmentBegun => foundTokens' = foundTokens]_vars
\* the second name() call is awaited after a scan of several batches
C15_Witness ==
    /\ pc = "awaitName"
    /\ Len(fetched) >= 2
    /\ Len(nameCalls) = 1
    /\ Len(foundTokens) = 2

\* ------------------------------------------------------------------ C16
\* C16: there is one discovery notice per registry entry, about that entry,
\* and no two notices are about the same address.
C16_OneNoticePerToken ==
    /\ Len(notices) = Len(foundTokens)
    /\ \A k \in 1..Len(notices) : notices[k].address = foundTokens[k]
    /\ \A j, k \in 1..Len(notices) :
           notices[j].address.bytes = notices[k].address.bytes => j = k
\* token 1 was approved by three qualifying transactions and noticed once
C16_Witness ==
    /\ ScanCompleted
    /\ Cardinality({p \in Visited :
                       Qualifies(TxOf(p)) /\ TxOf(p).to.bytes = Token1Bytes}) >= 3
    /\ Cardinality({k \in 1..Len(notices) : notices[k].address.bytes = Token1Bytes}) = 1

\* ------------------------------------------------------------------ C17
\* C17: every step keeps every registry entry, in its place.
C17_RegistryGrows ==
    [][/\ Len(foundTokens) <= Len(foundTokens')
       /\ Range(foundTokens) \subseteq Range(foundTokens')
       /\ SubSeq(foundTokens', 1, Len(foundTokens)) = foundTokens]_vars
\* both tokens are in the registry when the run has ended
C17_Witness ==
    /\ pc = "exited"
    /\ outcome = "complete"
    /\ Len(foundTokens) = 2
    /\ foundTokens[1].bytes # foundTokens[2].bytes

\* ------------------------------------------------------------------ C18
PlaceBefore(p, q) == p[1] < q[1] \/ (p[1] = q[1] /\ p[2] <= q[2])
\* the qualifying transactions of the fetched blocks that approve `bytes`
QualifyingPlaces(bytes) ==
    {p \in UNION {TxPlaces(h) : h \in KnownHeights \cap ScanRange} :
        Qualifies(TxOf(p)) /\ TxOf(p).to.bytes = bytes}
\* C18: the blocks of a batch are processed in ascending height order and
\* the transactions of a block in the order delivered, whatever the order
\* in which the fetches fulfilled; each notice names the first qualifying
\* transaction of its token, and the notices are in that order.
C18_FirstDiscoveryIsLowest ==
    /\ pc \in {"process", "awaitDelay"} =>
           /\ Len(blocks) = endBatchBlock - currentBlock + 1
           /\ \A i \in 1..Len(blocks) : blocks[i] = currentBlock + i - 1
    /\ pc = "process" =>
           \A h \in currentBlock..endBatchBlock : h \in processed <=> h < blockNum
    /\ \A k \in 1..Len(notices) :
           /\ <<notices[k].block, notices[k].index>> \in QualifyingPlaces(notices[k].address.bytes)
           /\ \A q \in QualifyingPlaces(notices[k].address.bytes) :
                  PlaceBefore(<<notices[k].block, notices[k].index>>, q)
    /\ \A j, k \in 1..Len(notices) :
           j < k => PlaceBefore(<<notices[j].block, notices[j].index>>,
                                <<notices[k].block, notices[k].index>>)
\* a batch of two whose higher block was fetched first; both blocks approve
\* token 1 and the notice names the lower block
C18_Witness ==
    /\ pc = "awaitDelay"
    /\ reordered
    /\ endBatchBlock = currentBlock + 1
    /\ \E k \in 1..Len(notices) :
           /\ notices[k].block = currentBlock
           /\ notices[k].address.bytes = Token1Bytes
           /\ \E q \in QualifyingPlaces(Token1Bytes) : q[1] = endBatchBlock

\* ------------------------------------------------------------------ C19
\* C19: when every request and timer settles, the run reaches its end; each
\* iteration of the batch loop moves currentBlock on by BATCH_SIZE and each
\* iteration of the enrichment loop moves to the next registry entry.
C19_Terminates ==
    /\ <>(pc = "exited")
    /\ [][(pc = "awaitDelay" /\ pc' # "awaitDelay")
              => currentBlock' = currentBlock + BATCH_SIZE]_vars
    /\ [][(pc = "awaitName" /\ pc' = "awaitName" /\ nameCalls' # nameCalls)
              => tokenIndex' = tokenIndex + 1 /\ tokenIndex' <= Len(foundTokens)]_vars
\* a run of three batches and two name() calls has ended
C19_Witness ==
    /\ pc = "exited"
    /\ Len(fetched) = 3
    /\ Len(nameCalls) = 2

====
